---- MODULE Spec2Model ----
(***************************************************************************)
(* Model of the OBD-II dashboard core of src/main.py (class MainWindow):   *)
(* the connection handling (connect_obd, disconnect_obd, reconnect_obd),   *)
(* the two sample ingestion handlers (update_dashboard, update_sensor),    *)
(* the VE computation, the nearest-bin lookup, the per-cell running mean  *)
(* of the VE table, the cylinder-count input (update_num_cyl), the device  *)
(* test with its background thread (on_test_clicked, _run_device_test),   *)
(* the log table (add_log_timing_entry, _write_log_line,                   *)
(* clear_log_timing) and the error dialog of connect_obd; and of the two   *)
(* CircularGauge classes, of src/main.py and of src/enhanced_gauge.py.     *)
(*                                                                         *)
(* Numbers.  The program computes in IEEE doubles.  The model computes in  *)
(* exact rationals, a pair <<n, d>> with d > 0 in lowest terms, so every   *)
(* equality below is an equality of real numbers; rounding of the doubles  *)
(* is not modelled.  A missing value (a key absent from a dict, a null     *)
(* response, no VE computed) is the empty tuple <<>>.  A sensor value is a  *)
(* plain number: the unit a python-obd response carries is not modelled.   *)
(***************************************************************************)
EXTENDS Integers, Sequences, FiniteSets, TLC

----------------------------------------------------------------------------
(* Exact rationals *)

Abs(n) == IF n < 0 THEN -n ELSE n

RECURSIVE GCD(_, _)
GCD(a, b) == IF b = 0 THEN a ELSE GCD(b, a % b)

Norm(n, d) ==
    LET s == IF d < 0 THEN -1 ELSE 1
        g == GCD(Abs(n), Abs(d))
    IN  <<(s * n) \div g, (s * d) \div g>>

Rat(n) == <<n, 1>>
Zero == Rat(0)

\* the least common denominator of a and b
LCD(a, b) == (a[2] \div GCD(a[2], b[2])) * b[2]

\* a as a numerator over the denominator l, a multiple of a's own
Over(a, l) == a[1] * (l \div a[2])

\* What a division by zero gives: Python raises ZeroDivisionError, and the
\* statements that would use the quotient do not run.  Here the quotient is
\* this value, every operation on it gives it again, and the handler looks
\* for it where the exception would leave the try block.
ZeroDivisionError == <<0, 0>>
raised(a) == a[2] = 0

RAdd(a, b) ==
    IF raised(a) \/ raised(b) THEN ZeroDivisionError
    ELSE LET l == LCD(a, b) IN Norm(Over(a, l) + Over(b, l), l)

RSub(a, b) ==
    IF raised(a) \/ raised(b) THEN ZeroDivisionError
    ELSE LET l == LCD(a, b) IN Norm(Over(a, l) - Over(b, l), l)

\* the product, the common factors cancelled before multiplying
RMul(a, b) ==
    IF raised(a) \/ raised(b) THEN ZeroDivisionError
    ELSE LET g1 == GCD(Abs(a[1]), b[2])
             g2 == GCD(Abs(b[1]), a[2])
         IN  Norm((a[1] \div g1) * (b[1] \div g2),
                  (a[2] \div g2) * (b[2] \div g1))

\* 1 / b for b # 0
RInv(b) == IF b[1] < 0 THEN <<-b[2], -b[1]>> ELSE <<b[2], b[1]>>

\* a / b: ZeroDivisionError for b = 0
RDiv(a, b) ==
    IF raised(a) \/ raised(b) \/ b[1] = 0 THEN ZeroDivisionError
    ELSE RMul(a, RInv(b))
RLt(a, b) == LET l == LCD(a, b) IN Over(a, l) < Over(b, l)
RGt0(a) == a[1] > 0
RAbs(a) == <<Abs(a[1]), a[2]>>

----------------------------------------------------------------------------
(* Program constants *)

NUM_CYLINDERS == 8

\* RPM_BINS = list(range(400, 8001, 400)), indexed from 0 as in Python
RPM_BINS == [i \in 0..19 |-> 400 + 400 * i]

\* MAP_BINS = list(range(20, 106, 5)), indexed from 0 as in Python
MAP_BINS == [i \in 0..17 |-> 20 + 5 * i]

\* len(bins)
len(bins) == Cardinality(DOMAIN bins)

\* the history limit of update_dashboard and update_sensor
HISTORY_LIMIT == 100

\* 273.15, the Celsius to Kelvin offset of the VE calculation
KELVIN_OFFSET == <<5463, 20>>

\* 120.0, the divisor of intakes_per_sec
INTAKE_DIVISOR == 120

\* the row index _write_log_line compares with
LOG_LIMIT == 500

----------------------------------------------------------------------------
(* Bounds of the model and the inputs of the environment *)

\* number of samples-carrying handler runs (connected polls and pushes)
MaxSamples == 2

\* the same under SpecBuf, enough to fill a history past its limit
MaxBufSamples == 102

\* the same under SpecMean
MaxMeanSamples == 4

\* "Connection Error" dialogs open at once under SpecModal
MaxDialogs == 2

\* the largest end of a gauge's range under SpecGauge
MaxGauge == 3

\* the ends a gauge is constructed with, and the values it is given
GaugeEnds == 0..MaxGauge
GaugeValues == -1..(MaxGauge + 1)

Absent == <<>>
None == "None"

\* the device names the operator can pick in the device dropdown
Ports == {"COM3"}

\* the names of the sensors the VE calculation reads
Channels == {"RPM", "MAF", "INTAKE_PRESSURE", "INTAKE_TEMP"}

\* the supported-command lists a vehicle may report on connect
SupportedSets ==
    { {},
      {"RPM", "MAF", "INTAKE_PRESSURE"},
      {"RPM", "MAF", "INTAKE_PRESSURE", "INTAKE_TEMP"} }

Resp(rpm, maf, map_, iat) ==
    [RPM |-> rpm, MAF |-> maf, INTAKE_PRESSURE |-> map_, INTAKE_TEMP |-> iat]

\* what one poll of the four sensors may answer: a value, or Absent for a
\* null response, a None value or a query that raised
PollResponses ==
    { Resp(Rat(2000), Rat(20), Rat(50), Rat(25)),
      Resp(Absent,    Rat(20), Rat(50), Rat(25)),
      Resp(Rat(0),    Rat(20), Rat(50), Rat(25)),
      Resp(Rat(2000), Rat(0),  Rat(50), Rat(25)),
      Resp(Rat(2000), Rat(20), Rat(0),  Rat(25)),
      Resp(Rat(2000), Rat(20), Rat(50), Absent),
      Resp(Rat(2000), Rat(20), Rat(50), Rat(-10)),
      Resp(Rat(600),  Rat(20), <<45, 2>>, Rat(25)),
      Resp(Rat(9000), Rat(20), Rat(10), Rat(25)),
      Resp(Rat(100),  Rat(20), Rat(200), Rat(25)),
      Resp(Absent,    Absent,  Absent,  Absent) }

\* polls at one operating point
MeanResponses ==
    { Resp(Rat(2000), Rat(20), Rat(50), Rat(25)),
      Resp(Rat(2000), Rat(20), Rat(50), Rat(-10)),
      Resp(Rat(2000), Rat(20), Rat(50), Rat(60)),
      Resp(Rat(0),    Rat(20), Rat(50), Rat(25)) }

\* polls at several operating points, the engine stopped in one of them
VEResponses ==
    { Resp(Rat(2000), Rat(20), Rat(50), Rat(25)),
      Resp(Rat(2000), Rat(20), Rat(50), Rat(-10)),
      Resp(Rat(600),  Rat(20), <<45, 2>>, Rat(25)),
      Resp(Rat(3000), Rat(35), Rat(80), Rat(40)),
      Resp(Rat(0),    Rat(20), Rat(50), Rat(25)) }

\* what the push callback may be handed: <<name, value>>, value Absent for
\* a null response
PushResponses == { <<"RPM", Rat(2000)>>, <<"MAF", Absent>> }

\* what the operator may type into the cylinder-count field: <<n>> for the
\* integer literal n, <<>> for text that int() rejects
CylTexts == {<<>>, <<0>>, <<-4>>}

\* cylinder counts the operator may type under SpecVE
VECylTexts == {<<4>>, <<6>>, <<0>>}

\* the RPM reading of the n-th sample under SpecBuf: every sample differs
BufValue(n) == Rat(1000 + n)

\* the queries of the device test: RPM, SPEED, COOLANT_TEMP and the four
\* GM commands
TEST_QUERIES == 7

\* what the vehicle answers to the queries of the device test, as the ok
\* flag each adds to results: every query answered, none, or the GM
\* commands not
TestAnswers ==
    { [i \in 1..TEST_QUERIES |-> TRUE],
      [i \in 1..TEST_QUERIES |-> FALSE],
      [i \in 1..TEST_QUERIES |-> i <= 3] }

\* how the open of the device test ends
TestOpens == {"raises", "not_responding", "ok"}

\* polls under SpecTest
TestResponses ==
    { Resp(Rat(2000), Rat(20), Rat(50), Rat(25)),
      Resp(Rat(0),    Rat(20), Rat(50), Rat(25)) }

\* the sensor whose readings go to the log table, and its reading
LogNames == {"RPM"}
LogValues == {Rat(2000)}

\* timestamp_str, the time of day to the millisecond, when
\* add_log_timing_entry asks: that of the line that is open, or another
Times == {"12:00:00.001", "12:00:00.002"}

\* what the operator answers to "Are you sure you want to clear all log
\* entries?"
Replies == {"Yes", "No"}

\* the device names under SpecPort: an adapter that was used and another
TwoPorts == {"COM3", "COM4"}

\* how the opens end under SpecPort
PortResults == {<<"raises", {}>>, <<"not_responding", {}>>, <<"ok", Channels>>}

\* how obd.OBD(portstr=port, ...) ends: it raises, it returns a session
\* whose is_connected() is false, or it returns a live session, which
\* reports the commands the vehicle supports
ConnectResults ==
    {<<"raises", {}>>, <<"not_responding", {}>>}
        \cup {<<"ok", cmds>> : cmds \in SupportedSets}

----------------------------------------------------------------------------
(* State *)

VARIABLES
    connected,           \* self.connected
    connection,          \* self.connection: None or the open session's port
    last_port,           \* self.last_port
    supported_commands,  \* self.supported_commands (names)
    sensor_values,       \* self.sensor_values: name -> value, Absent if no key
    history,             \* self.history: name -> list of values
    num_cyl,             \* self.num_cyl
    ve_data_array,       \* self.ve_data_array[map_idx, rpm_idx]
    ve_counts,           \* self.ve_counts[map_idx, rpm_idx]
    ve_label,            \* the VE value shown by self.ve_label, Absent for "--"
    status,              \* the message self.status_bar shows
    ve_trace,            \* history variable: every <<cell, ve>> assigned
    recorded,            \* history variable: name -> every value recorded
                         \* since the histories were last cleared
    opens,               \* history variable: the obd.OBD(...) opens the last
                         \* handler made for self.connection, as <<handler,
                         \* "ok" or "failed", port>>
    test_button,         \* self.test_button.isEnabled()
    test_thread,         \* where the thread of _run_device_test is: "none",
                         \* "open", "query", "post", or "queued" once it has
                         \* ended and finish waits in the event loop
    test_conn,           \* conn of _run_device_test
    test_results,        \* results of _run_device_test (the ok flags)
    log_timing_table,    \* the rows of self.log_timing_table, oldest first
    current_log_entry_time,  \* self.current_log_entry_time
    current_log_sensors,     \* self.current_log_sensors: name -> value_str
    rpm_gauge,           \* self.rpm_gauge, a CircularGauge of src/main.py
    enhanced_gauge,      \* a CircularGauge of src/enhanced_gauge.py
    warning_open,        \* the "Connection Error" dialogs of connect_obd that
                         \* are open: calls of connect_obd stopped in
                         \* QMessageBox.warning
    open_sessions,       \* history variable: the sessions opened for
                         \* self.connection and not closed since
    samples              \* history variable: sample-carrying handler runs

vars == <<connected, connection, last_port, supported_commands, sensor_values,
          history, num_cyl, ve_data_array, ve_counts, ve_label, status,
          ve_trace, recorded, opens, samples,
          test_button, test_thread, test_conn, test_results,
          log_timing_table, current_log_entry_time, current_log_sensors,
          rpm_gauge, enhanced_gauge, warning_open, open_sessions>>

grid == <<ve_data_array, ve_counts>>
session == <<connected, connection, last_port, supported_commands,
             sensor_values, history, recorded, open_sessions>>

test == <<test_button, test_thread, test_conn, test_results>>

log == <<log_timing_table, current_log_entry_time, current_log_sensors>>
gauges == <<rpm_gauge, enhanced_gauge>>

\* The widgets that keep state of their own: the log table and the gauges.
\* A handler writes them through add_log_timing_entry and set_value only and
\* reads none of them, so these two methods are actions of their own below,
\* taken with any argument at any moment: that covers every sequence of calls
\* the handlers can make, and the handlers themselves leave the widgets out.
widgets == <<log, gauges>>

Cells == (DOMAIN MAP_BINS) \X (DOMAIN RPM_BINS)

\* np.zeros((len(MAP_BINS), len(RPM_BINS))): a matrix m, read as m[i][j]
zeros(z) == [i \in DOMAIN MAP_BINS |-> [j \in DOMAIN RPM_BINS |-> z]]

\* the __init__ of both CircularGauge classes: current_value = min_value
CircularGauge(min_value, max_value) ==
    [min_value |-> min_value, max_value |-> max_value,
     current_value |-> min_value]

\* self.current_log_sensors = {}
no_sensors == [name \in LogNames |-> Absent]

\* MainWindow.__init__, the gauges apart
MainWindow ==
    /\ connected = FALSE
    /\ connection = None
    /\ last_port = None
    /\ supported_commands = {}
    /\ sensor_values = [c \in Channels |-> Absent]
    /\ history = [c \in Channels |-> <<>>]
    /\ num_cyl = NUM_CYLINDERS
    /\ ve_data_array = zeros(Zero)
    /\ ve_counts = zeros(0)
    /\ ve_label = Absent
    /\ status = "Disconnected - Select device and connect"
    /\ ve_trace = <<>>
    /\ opens = <<>>
    /\ recorded = [c \in Channels |-> <<>>]
    /\ samples = 0
    /\ test_button = TRUE
    /\ test_thread = "none"
    /\ test_conn = None
    /\ test_results = <<>>
    /\ log_timing_table = <<>>
    /\ current_log_entry_time = None
    /\ current_log_sensors = no_sensors
    /\ warning_open = 0
    /\ open_sessions = 0

\* the window as __init__ leaves it, with the RPM gauge of setup_ui and an
\* enhanced gauge of the default range
Init ==
    /\ MainWindow
    /\ rpm_gauge = CircularGauge(0, 8000)
    /\ enhanced_gauge = CircularGauge(0, 100)

----------------------------------------------------------------------------
(* disconnect_obd, connect_obd, reconnect_obd *)

\* a disconnect that forgets to clear the histories
cleared_history_kept(h) == h

\* self.history.clear()
cleared_history(h) == [c \in DOMAIN h |-> <<>>]

\* a disconnect that keeps the latest values
cleared_values_kept(sv) == sv

\* self.sensor_values = {}
cleared_values(sv) == [c \in DOMAIN sv |-> Absent]

\* a disconnect that drops the connected flag and keeps the session
disconnect_body_holding ==
    /\ connected' = FALSE
    /\ UNCHANGED <<connection, open_sessions>>
    /\ supported_commands' = {}
    /\ sensor_values' = cleared_values(sensor_values)
    /\ history' = cleared_history(history)
    /\ recorded' = [c \in Channels |-> <<>>]

\* the sessions open once disconnect_obd has run: self.connection.close() for
\* a handle that is held
closed == IF connection # None THEN open_sessions - 1 ELSE open_sessions

\* The body of disconnect_obd.  self.async_connection is None throughout the
\* program (nothing assigns it), so only the synchronous session is closed;
\* an exception of close() is swallowed and the handle is dropped all the same.
disconnect_body ==
    /\ connected' = FALSE
    /\ connection' = None
    /\ open_sessions' = closed
    /\ supported_commands' = {}
    /\ sensor_values' = cleared_values(sensor_values)
    /\ history' = cleared_history(history)
    /\ recorded' = [c \in Channels |-> <<>>]

\* a disconnect that also zeroes the VE table
disconnect_obd_zeroing ==
    /\ disconnect_body
    /\ ve_data_array' = zeros(Zero)
    /\ ve_counts' = zeros(0)
    /\ status' = "Disconnected"
    /\ opens' = <<>>
    /\ UNCHANGED <<last_port, num_cyl, ve_label, ve_trace, samples,
                   test, widgets, warning_open>>

\* on_disconnect_clicked: disconnect_obd(), then the status message
disconnect_obd ==
    /\ disconnect_body
    /\ status' = "Disconnected"
    /\ opens' = <<>>
    /\ UNCHANGED <<last_port, num_cyl, grid, ve_label, ve_trace, samples,
                   test, widgets, warning_open>>

\* a connect that leaves the handle of a session that does not respond in
\* self.connection: the except branch without its disconnect_obd()
connect_body_leaking(port, result) ==
    IF result[1] = "ok"
    THEN /\ connected' = TRUE
         /\ connection' = port
         /\ open_sessions' = closed + 1
         /\ last_port' = port
         /\ supported_commands' = result[2]
         /\ sensor_values' = cleared_values(sensor_values)
         /\ history' = cleared_history(history)
         /\ recorded' = [c \in Channels |-> <<>>]
         /\ status' = "Connected"
    ELSE /\ connected' = FALSE
         /\ connection' = IF result[1] = "not_responding" THEN port ELSE None
         /\ open_sessions' =
                IF result[1] = "not_responding" THEN closed + 1 ELSE closed
         /\ supported_commands' = {}
         /\ sensor_values' = cleared_values(sensor_values)
         /\ history' = cleared_history(history)
         /\ recorded' = [c \in Channels |-> <<>>]
         /\ status' = "Connection Error"
         /\ UNCHANGED last_port

\* a connect that remembers its port before it opens the session
connect_body_remembering(port, result) ==
    IF result[1] = "ok"
    THEN /\ connected' = TRUE
         /\ connection' = port
         /\ open_sessions' = closed + 1
         /\ last_port' = port
         /\ supported_commands' = result[2]
         /\ sensor_values' = cleared_values(sensor_values)
         /\ history' = cleared_history(history)
         /\ recorded' = [c \in Channels |-> <<>>]
         /\ status' = "Connected"
    ELSE /\ disconnect_body
         /\ status' = "Connection Error"
         /\ last_port' = port

\* The body of connect_obd(port): disconnect_obd() first; then the open.  A
\* failed open (obd.OBD raises, or is_connected() is false) runs the except
\* branch, which ends in disconnect_obd().  A live session reports its
\* supported commands result[2].
connect_body(port, result) ==
    IF result[1] = "ok"
    THEN /\ connected' = TRUE
         /\ connection' = port
         /\ open_sessions' = closed + 1
         /\ last_port' = port
         /\ supported_commands' = result[2]
         /\ sensor_values' = cleared_values(sensor_values)
         /\ history' = cleared_history(history)
         /\ recorded' = [c \in Channels |-> <<>>]
         /\ status' = "Connected"
    ELSE /\ disconnect_body
         /\ status' = "Connection Error"
         /\ UNCHANGED last_port

\* one open, by the handler named, with its outcome and the port it opened
attempt(handler, port, result) ==
    <<handler, IF result[1] = "ok" THEN "ok" ELSE "failed", port>>

\* on_connect_clicked: connect_obd(port) for the selected device
connect_obd(port, result) ==
    /\ connect_body(port, result)
    /\ opens' = <<attempt("on_connect_clicked", port, result)>>
    /\ UNCHANGED <<num_cyl, grid, ve_label, ve_trace, samples,
                   test, widgets, warning_open>>

\* a reconnect timer that does not look at self.connected
reconnect_obd_unconditional(result) ==
    /\ IF last_port # None
       THEN /\ connect_body(last_port, result)
            /\ opens' = <<attempt("reconnect_obd", last_port, result)>>
       ELSE UNCHANGED <<session, status>> /\ opens' = <<>>
    /\ UNCHANGED <<num_cyl, grid, ve_label, ve_trace, samples,
                   test, widgets, warning_open>>

\* the reconnect timer's handler
reconnect_obd(result) ==
    /\ IF ~connected /\ last_port # None
       THEN /\ connect_body(last_port, result)
            /\ opens' = <<attempt("reconnect_obd", last_port, result)>>
       ELSE UNCHANGED <<session, status>> /\ opens' = <<>>
    /\ UNCHANGED <<num_cyl, grid, ve_label, ve_trace, samples,
                   test, widgets, warning_open>>

----------------------------------------------------------------------------
(* connect_obd with its error dialog *)

\* QMessageBox.warning in the except branch of connect_obd runs an event loop
\* of its own until the operator closes the dialog: the timers go on firing
\* their handlers inside the call, and the window takes no click.  The
\* actions connect_obd and reconnect_obd above take a failed connect as one
\* step, the dialog closed before any timer fires.  The two actions below
\* cut it at the dialog.

\* connect_obd(port) by the handler named, with an open that fails, up to
\* QMessageBox.warning: disconnect_obd(); the open, which leaves its session
\* in self.connection unless obd.OBD raised; the status message; the dialog
connect_failing(handler, port, result) ==
    /\ result[1] # "ok"
    /\ connected' = FALSE
    /\ connection' = IF result[1] = "not_responding" THEN port ELSE None
    /\ open_sessions' =
           IF result[1] = "not_responding" THEN closed + 1 ELSE closed
    /\ supported_commands' = {}
    /\ sensor_values' = cleared_values(sensor_values)
    /\ history' = cleared_history(history)
    /\ recorded' = [c \in Channels |-> <<>>]
    /\ status' = "Connection Error"
    /\ warning_open' = warning_open + 1
    /\ opens' = <<attempt(handler, port, result)>>
    /\ UNCHANGED <<last_port, num_cyl, grid, ve_label, ve_trace, samples, test,
                   widgets>>

\* the operator closes the innermost dialog, and the connect_obd that opened
\* it runs to its end: the buttons, then disconnect_obd()
warning_closed ==
    /\ warning_open > 0
    /\ disconnect_body
    /\ warning_open' = warning_open - 1
    /\ UNCHANGED <<last_port, status, opens, num_cyl, grid, ve_label, ve_trace,
                   samples, test, widgets>>

----------------------------------------------------------------------------
(* update_num_cyl *)

\* self.num_cyl = int(self.cyl_input.text()); a ValueError leaves it alone
parsed_num_cyl(text, old) == IF text = <<>> THEN old ELSE text[1]

update_num_cyl(text) ==
    /\ num_cyl' = parsed_num_cyl(text, num_cyl)
    /\ opens' = <<>>
    /\ UNCHANGED <<session, grid, ve_label, status, ve_trace, samples,
                   test, widgets, warning_open>>

----------------------------------------------------------------------------
(* Sample ingestion: update_sensor and update_dashboard *)

\* a record that never evicts
record_unbounded(h, value) == Append(h, value)

\* a record that evicts the newest value, pop() for pop(0)
record_pop_last(h, value) ==
    LET a == Append(h, value)
    IN  IF Len(a) > HISTORY_LIMIT THEN SubSeq(a, 1, Len(a) - 1) ELSE a

\* self.history[name].append(value); pop(0) when longer than the limit
record(h, value) ==
    LET a == Append(h, value)
    IN  IF Len(a) > HISTORY_LIMIT THEN Tail(a) ELSE a

\* dict.get(name, default)
get(d, name, default) == IF d[name] = Absent THEN default ELSE d[name]

\* the push callback: it returns at once on a null response, and else
\* stores and records the value (it does not read self.connected); its call
\* of add_log_timing_entry is the action of the log table
update_sensor(response) ==
    LET name == response[1]
        value == response[2]
    IN  /\ IF value = Absent
           THEN UNCHANGED <<sensor_values, history, recorded, samples>>
           ELSE /\ sensor_values' = [sensor_values EXCEPT ![name] = value]
                /\ history' = [history EXCEPT ![name] = record(@, value)]
                /\ recorded' = [recorded EXCEPT ![name] = Append(@, value)]
                /\ samples' = samples + 1
        /\ opens' = <<>>
        /\ UNCHANGED <<connected, connection, last_port, supported_commands,
                       open_sessions, num_cyl, grid, ve_label, status,
                       ve_trace, test, widgets, warning_open>>

\* key=lambda i: abs(BINS[i] - value)
bin_key(bins, value, i) == RAbs(RSub(Rat(bins[i]), value))

\* a min() that keeps the last of the equally small elements
replaces_best_or_ties(k, best_k) == RLt(k, best_k) \/ k = best_k

\* min() keeps the first element whose key is smallest: a later element
\* replaces the best so far only when its key is strictly smaller
replaces_best(k, best_k) == RLt(k, best_k)

\* the element of a one-element set
the(S) == CHOOSE x \in S : TRUE

\* min(range(len(BINS)), key=lambda i: abs(BINS[i] - value)): best[i] is the
\* index min() holds after it has looked at the indices 0..i.  (b ranges
\* over the one-element set {best[i - 1]} so that it is computed once.)
nearest_index(bins, value) ==
    LET key == [i \in DOMAIN bins |-> bin_key(bins, value, i)]
        best[i \in DOMAIN bins] ==
            IF i = 0
            THEN 0
            ELSE the({ IF replaces_best(key[i], key[b]) THEN i ELSE b :
                         b \in {best[i - 1]} })
    IN  best[len(bins) - 1]

map_idx(map_) == nearest_index(MAP_BINS, map_)
rpm_idx(rpm) == nearest_index(RPM_BINS, rpm)

\* the message of the except branch of update_dashboard; the exception the
\* VE calculation and the running mean can raise is ZeroDivisionError
DashboardError == "Dashboard update error: float division by zero"

\* a guard that forgets the rpm > 0 test
ve_guard_without_rpm(rpm, maf, map_, iat) ==
    RGt0(maf) /\ RGt0(map_) /\ iat # Absent

\* a guard that asks for a positive intake temperature as well
ve_guard_positive_iat(rpm, maf, map_, iat) ==
    RGt0(rpm) /\ RGt0(maf) /\ RGt0(map_) /\ iat # Absent /\ RGt0(iat)

\* if rpm > 0 and maf > 0 and map_ > 0 and iat is not None
ve_guard(rpm, maf, map_, iat) ==
    RGt0(rpm) /\ RGt0(maf) /\ RGt0(map_) /\ iat # Absent

\* a Kelvin conversion that drops the .15
temp_k_rounded(iat) == RAdd(iat, Rat(273))

temp_k(iat) == RAdd(iat, KELVIN_OFFSET)

intakes_per_sec(rpm, cyl) == RDiv(RMul(rpm, Rat(cyl)), Rat(INTAKE_DIVISOR))

\* a g_cyl without its guard
g_cyl_unguarded(maf, ips) == RDiv(maf, ips)

\* g_cyl = maf / intakes_per_sec if intakes_per_sec > 0 else 0
g_cyl(maf, ips) == IF RGt0(ips) THEN RDiv(maf, ips) ELSE Zero

\* ve = (g_cyl * temp_k) / map_ if map_ > 0 else 0
ve_of(rpm, maf, map_, iat, cyl) ==
    IF RGt0(map_)
    THEN RDiv(RMul(g_cyl(maf, intakes_per_sec(rpm, cyl)), temp_k(iat)), map_)
    ELSE Zero

\* an exponential moving average in place of the cumulative mean
new_avg_moving(old_avg, count, ve) ==
    IF count = 0 THEN ve ELSE RDiv(RAdd(old_avg, ve), Rat(2))

\* the mean computed after the count was already incremented
new_avg_late(old_avg, count, ve) ==
    RDiv(RAdd(RMul(old_avg, Rat(count + 1)), ve), Rat(count + 2))

\* new_avg = (old_avg * count + ve) / (count + 1)
new_avg(old_avg, count, ve) ==
    RDiv(RAdd(RMul(old_avg, Rat(count)), ve), Rat(count + 1))

\* a count that is incremented twice per sample
new_count_twice(count) == count + 2

\* a count that is never incremented
new_count_same(count) == count

\* self.ve_counts[map_idx, rpm_idx] += 1
new_count(count) == count + 1

\* the poll timer's handler, resp being what the queries of this tick answer.
\* (Its calls of add_log_timing_entry and of set_value are the actions of the
\* log table and of the gauges: see widgets.)
\* (A value that is used more than once is bound by \E over a one-element
\* set, so that it is computed once.)
update_dashboard(resp) ==
    IF ~connected
    THEN /\ opens' = <<>>
         /\ UNCHANGED <<session, num_cyl, grid, ve_label, status, ve_trace,
                        samples, test, widgets, warning_open>>
    ELSE LET polled == IF connection # None /\ supported_commands # {}
                       THEN {c \in supported_commands : resp[c] # Absent}
                       ELSE {}
             sv == [c \in Channels |->
                      IF c \in polled THEN resp[c] ELSE sensor_values[c]]
             rpm == get(sv, "RPM", Zero)
             map_ == get(sv, "INTAKE_PRESSURE", Zero)
             maf == get(sv, "MAF", Zero)
             iat == get(sv, "INTAKE_TEMP", Zero)
         IN  /\ samples' = samples + 1
             /\ opens' = <<>>
             /\ sensor_values' = sv
             /\ history' = [c \in Channels |->
                              IF c \in polled THEN record(history[c], resp[c])
                              ELSE history[c]]
             /\ recorded' = [c \in Channels |->
                               IF c \in polled THEN Append(recorded[c], resp[c])
                               ELSE recorded[c]]
             /\ IF ~ve_guard(rpm, maf, map_, iat)
                THEN UNCHANGED <<ve_label, grid, status, ve_trace>>
                ELSE \E ve \in {ve_of(rpm, maf, map_, iat, num_cyl)} :
                     IF raised(ve)
                     THEN \* the except branch, entered from the VE calculation
                          /\ status' = DashboardError
                          /\ UNCHANGED <<ve_label, grid, ve_trace>>
                     ELSE \E cell \in {<<map_idx(map_), rpm_idx(rpm)>>} :
                          \E avg \in {new_avg(ve_data_array[cell[1]][cell[2]],
                                               ve_counts[cell[1]][cell[2]], ve)} :
                          IF raised(avg)
                          THEN \* the except branch, entered from the running mean
                               /\ ve_label' = ve
                               /\ status' = DashboardError
                               /\ UNCHANGED <<grid, ve_trace>>
                          ELSE /\ ve_label' = ve
                               /\ ve_data_array' = [ve_data_array EXCEPT
                                      ![cell[1]][cell[2]] = avg]
                               /\ ve_counts' = [ve_counts EXCEPT
                                      ![cell[1]][cell[2]] = new_count(@)]
                               /\ ve_trace' = Append(ve_trace, <<cell, ve>>)
                               /\ UNCHANGED status
             /\ UNCHANGED <<connected, connection, last_port, supported_commands,
                            open_sessions, num_cyl, test, widgets,
                            warning_open>>

----------------------------------------------------------------------------
(* The device test: on_test_clicked, the thread of _run_device_test, finish *)

\* what no step of the device test touches
untested == <<session, num_cyl, grid, ve_label, ve_trace, samples, widgets,
              warning_open>>

\* The Test Device button (a disabled button gives no click): it starts the
\* thread of _run_device_test(port).
on_test_clicked(port) ==
    /\ test_button
    /\ test_button' = FALSE
    /\ status' = "Testing"
    /\ test_thread' = "open"
    /\ test_conn' = None
    /\ test_results' = <<>>
    /\ opens' = <<>>
    /\ UNCHANGED untested

\* a device test that opens its session through self.connection
run_open_shared(port, result) ==
    /\ test_thread = "open"
    /\ connection' = IF result = "raises" THEN None ELSE port
    /\ test_conn' = IF result = "raises" THEN None ELSE port
    /\ test_results' = IF result = "ok" THEN <<TRUE>> ELSE <<FALSE>>
    /\ test_thread' = IF result = "ok" THEN "query" ELSE "post"
    /\ UNCHANGED <<connected, last_port, supported_commands, sensor_values,
                   history, recorded, num_cyl, grid, ve_label, ve_trace,
                   samples, status, opens, test_button, widgets, warning_open,
                   open_sessions>>

\* The thread, up to the test of its session: conn = obd.OBD(portstr=port),
\* a session of its own.  An open that raises adds a failure to results and
\* leaves conn None; without a session that responds the thread adds
\* "Could not connect" and goes on to post finish.
run_open(port, result) ==
    /\ test_thread = "open"
    /\ test_conn' = IF result = "raises" THEN None ELSE port
    /\ test_results' = CASE result = "raises" -> <<FALSE, FALSE>>
                          [] result = "not_responding" -> <<FALSE>>
                          [] OTHER -> <<TRUE>>
    /\ test_thread' = IF result = "ok" THEN "query" ELSE "post"
    /\ UNCHANGED <<untested, status, opens, test_button>>

\* the thread, its queries: each adds its flag to results; then conn.close()
run_queries(answers) ==
    /\ test_thread = "query"
    /\ test_results' = test_results \o answers
    /\ test_conn' = None
    /\ test_thread' = "post"
    /\ UNCHANGED <<untested, status, opens, test_button>>

\* the thread, its last statement: QTimer.singleShot(0, finish)
post_finish ==
    /\ test_thread = "post"
    /\ test_thread' = "queued"
    /\ UNCHANGED <<untested, status, opens, test_button, test_conn,
                   test_results>>

\* finish, run by the event loop
finish ==
    /\ test_thread = "queued"
    /\ test_button' = TRUE
    /\ status' = "Test complete"
    /\ test_thread' = "none"
    /\ opens' = <<>>
    /\ UNCHANGED <<untested, test_conn, test_results>>

----------------------------------------------------------------------------
(* The gauges: CircularGauge.set_value of main.py and of enhanced_gauge.py *)

\* what set_value leaves alone
ungauged == <<session, num_cyl, grid, ve_label, status, ve_trace, opens,
              samples, test, log, warning_open>>

\* a set_value that takes every value
set_value_unchecked(gauge, value) == [gauge EXCEPT !.current_value = value]

\* set_value of main.py: if self.min_value <= value <= self.max_value:
\* self.current_value = value
set_value(gauge, value) ==
    IF gauge.min_value <= value /\ value <= gauge.max_value
    THEN [gauge EXCEPT !.current_value = value]
    ELSE gauge

\* Python's max(a, b) and min(a, b): b when it is larger (smaller), else a
max(a, b) == IF b > a THEN b ELSE a
min(a, b) == IF b < a THEN b ELSE a

\* set_value of enhanced_gauge.py:
\* val = max(self.min_value, min(self.max_value, value))
enhanced_set_value(gauge, value) ==
    [gauge EXCEPT
       !.current_value = max(gauge.min_value, min(gauge.max_value, value))]

\* self.rpm_gauge.set_value(value)
rpm_gauge_set_value(value) ==
    /\ rpm_gauge' = set_value(rpm_gauge, value)
    /\ UNCHANGED <<enhanced_gauge, ungauged>>

\* set_value(value) on the enhanced gauge
enhanced_gauge_set_value(value) ==
    /\ enhanced_gauge' = enhanced_set_value(enhanced_gauge, value)
    /\ UNCHANGED <<rpm_gauge, ungauged>>

----------------------------------------------------------------------------
(* The log table: add_log_timing_entry, _write_log_line, clear_log_timing *)

\* what the log actions leave alone
unlogged == <<session, num_cyl, grid, ve_label, status, ve_trace, opens,
              samples, test, gauges, warning_open>>

\* f"{value:.2f}": the text <<h>> of the value in hundredths h, rounded to
\* the nearest, a tie to the even one
value_str(value) ==
    LET h == (100 * value[1]) \div value[2]
        r == (100 * value[1]) % value[2]
    IN  IF 2 * r > value[2] \/ (2 * r = value[2] /\ h % 2 = 1)
        THEN <<h + 1>>
        ELSE <<h>>

\* row = rowCount(); insertRow(row); setItem(row, 0, log_line); and
\* removeRow(0) if row > 500.  The table after the call.
_write_log_line(table, timestamp, sensors_dict) ==
    LET row == Len(table)
        inserted == Append(table, <<timestamp, sensors_dict>>)
    IN  IF row > LOG_LIMIT THEN Tail(inserted) ELSE inserted

\* add_log_timing_entry(sensor_name, value) at the millisecond now: the
\* reading joins the open line; when the millisecond has changed, the open
\* line (the new reading in it) is written and a new line is begun
add_log_timing_entry(sensor_name, value, now) ==
    LET sensors == [current_log_sensors EXCEPT ![sensor_name] = value_str(value)]
    IN  /\ IF current_log_entry_time # now
           THEN /\ log_timing_table' =
                      IF current_log_entry_time # None /\ sensors # no_sensors
                      THEN _write_log_line(log_timing_table,
                                           current_log_entry_time, sensors)
                      ELSE log_timing_table
                /\ current_log_entry_time' = now
                /\ current_log_sensors' =
                      [no_sensors EXCEPT ![sensor_name] = value_str(value)]
           ELSE /\ current_log_sensors' = sensors
                /\ UNCHANGED <<log_timing_table, current_log_entry_time>>
        /\ UNCHANGED unlogged

\* the Clear Log button, with the operator's answer to its question
clear_log_timing(reply) ==
    /\ IF reply = "Yes"
       THEN /\ log_timing_table' = <<>>
            /\ current_log_entry_time' = None
            /\ current_log_sensors' = no_sensors
       ELSE UNCHANGED log
    /\ UNCHANGED unlogged

----------------------------------------------------------------------------

\* The handlers run one at a time, on the single thread of the Qt event
\* loop.  The sample-carrying handlers are cut off after MaxSamples samples.
Next ==
    \/ \E port \in Ports, result \in ConnectResults : connect_obd(port, result)
    \/ disconnect_obd
    \/ \E result \in ConnectResults : reconnect_obd(result)
    \/ samples < MaxSamples /\ \E response \in PushResponses : update_sensor(response)
    \/ samples < MaxSamples /\ \E resp \in PollResponses : update_dashboard(resp)
    \/ \E text \in CylTexts : update_num_cyl(text)

Spec == Init /\ [][Next]_vars

\* The VE table under a longer run of samples: one vehicle that supports the
\* four sensors, polled at one operating point (rpm 2000, map 50, one cell)
\* at varying intake temperature, with the engine stopped now and then.
NextMean ==
    \/ \E port \in Ports : connect_obd(port, <<"ok", Channels>>)
    \/ disconnect_obd
    \/ samples < MaxMeanSamples /\ \E resp \in MeanResponses : update_dashboard(resp)

SpecMean == Init /\ [][NextMean]_vars

\* The VE calculation over several operating points and cylinder counts: one
\* vehicle that supports the four sensors, and an operator who retypes the
\* cylinder count between polls.
NextVE ==
    \/ \E port \in Ports : connect_obd(port, <<"ok", Channels>>)
    \/ \E text \in VECylTexts : update_num_cyl(text)
    \/ samples < MaxSamples /\ \E resp \in VEResponses : update_dashboard(resp)

SpecVE == Init /\ [][NextVE]_vars

\* The histories under a long run: a vehicle that supports RPM only, polled
\* and pushed with a reading that differs from sample to sample, connected
\* and disconnected at any moment (which clears the histories).
NextBuf ==
    \/ \E port \in Ports : connect_obd(port, <<"ok", {"RPM"}>>)
    \/ disconnect_obd
    \/ /\ samples < MaxBufSamples
       /\ update_dashboard(Resp(BufValue(samples), Absent, Absent, Absent))
    \/ /\ samples < MaxBufSamples
       /\ update_sensor(<<"RPM", BufValue(samples)>>)

SpecBuf == Init /\ [][NextBuf]_vars

\* The device test next to the handlers of the event loop: the steps of the
\* thread of _run_device_test interleave with the handlers in every order.
NextTest ==
    \/ \E port \in Ports, result \in {<<"raises", {}>>, <<"ok", Channels>>} :
          connect_obd(port, result)
    \/ disconnect_obd
    \/ \E result \in {<<"raises", {}>>, <<"ok", Channels>>} : reconnect_obd(result)
    \/ samples < MaxSamples /\ \E resp \in TestResponses : update_dashboard(resp)
    \/ \E port \in Ports : on_test_clicked(port)
    \/ \E port \in Ports, result \in TestOpens : run_open(port, result)
    \/ \E answers \in TestAnswers : run_queries(answers)
    \/ post_finish
    \/ finish

SpecTest == Init /\ [][NextTest]_vars

\* The remembered port with two devices to pick from: the operator connects
\* to either and disconnects, the reconnect timer ticks, and polls run.
NextPort ==
    \/ \E port \in TwoPorts, result \in PortResults : connect_obd(port, result)
    \/ disconnect_obd
    \/ \E result \in PortResults : reconnect_obd(result)
    \/ samples < MaxSamples /\ \E resp \in MeanResponses : update_dashboard(resp)

SpecPort == Init /\ [][NextPort]_vars

\* One session from its connect on: the operator connects once and does not
\* disconnect, the poll timer ticks with every answer of PollResponses, and
\* the cylinder count is retyped between the ticks.
NextTick ==
    \/ /\ ~connected
       /\ \E port \in Ports, cmds \in SupportedSets :
             connect_obd(port, <<"ok", cmds>>)
    \/ samples < MaxSamples /\ \E resp \in PollResponses : update_dashboard(resp)
    \/ \E text \in CylTexts : update_num_cyl(text)

SpecTick == Init /\ [][NextTick]_vars

\* The handlers with the error dialog of connect_obd: while a dialog is open
\* the buttons of the window give no click, and the two timers fire.
NextModal ==
    \/ /\ warning_open = 0
       /\ \E port \in Ports : connect_obd(port, <<"ok", Channels>>)
    \/ /\ warning_open = 0
       /\ \E port \in Ports, result \in ConnectResults :
             connect_failing("on_connect_clicked", port, result)
    \/ warning_open = 0 /\ disconnect_obd
    \/ reconnect_obd(<<"ok", Channels>>)
    \/ /\ ~connected /\ last_port # None
       /\ warning_open < MaxDialogs
       /\ \E result \in ConnectResults :
             connect_failing("reconnect_obd", last_port, result)
    \/ warning_closed
    \/ samples < MaxSamples /\ \E resp \in TestResponses : update_dashboard(resp)

SpecModal == Init /\ [][NextModal]_vars

\* The two gauges on their own, each constructed with any two ends (the
\* larger one first too) and given any value in and around its range.
InitGauge ==
    /\ MainWindow
    /\ \E min_value \in GaugeEnds, max_value \in GaugeEnds :
          rpm_gauge = CircularGauge(min_value, max_value)
    /\ \E min_value \in GaugeEnds, max_value \in GaugeEnds :
          enhanced_gauge = CircularGauge(min_value, max_value)

NextGauge ==
    \/ \E value \in GaugeValues : rpm_gauge_set_value(value)
    \/ \E value \in GaugeValues : enhanced_gauge_set_value(value)

SpecGauge == InitGauge /\ [][NextGauge]_vars

\* The log table on its own: readings arrive at any millisecond, and the
\* operator clears the table at any moment.
NextLog ==
    \/ \E sensor_name \in LogNames, value \in LogValues, now \in Times :
          add_log_timing_entry(sensor_name, value, now)
    \/ \E reply \in Replies : clear_log_timing(reply)

SpecLog == Init /\ [][NextLog]_vars

----------------------------------------------------------------------------
(* Vocabulary of the properties *)

\* the reading the VE calculation sees for a sensor: 0 when it has no value
reading(sv, name) == IF sv[name] = Absent THEN Zero ELSE sv[name]

mean_at(c) == ve_data_array[c[1]][c[2]]
count_at(c) == ve_counts[c[1]][c[2]]

\* a step that appends a value to some channel's history
Appends == \E c \in Channels : history'[c] # history[c] /\ history'[c] # <<>>

\* a step that computes a VE value
ComputesVE == ve_trace' # ve_trace \/ ve_label' # ve_label

\* a step that is one sample-carrying run of a handler while connected
ConnectedTick == connected /\ samples' # samples

\* the VE values assigned to cell c, in the order of assignment
values_of(c) ==
    LET es == SelectSeq(ve_trace, LAMBDA e : e[1] = c)
    IN  [k \in 1..Len(es) |-> es[k][2]]

RECURSIVE sum_of(_)
sum_of(vs) == IF vs = <<>> THEN Zero ELSE RAdd(vs[1], sum_of(Tail(vs)))

arithmetic_mean(vs) == RDiv(sum_of(vs), Rat(Len(vs)))

visited == {ve_trace[k][1] : k \in 1..Len(ve_trace)}

\* the last n elements of the sequence q (all of q when it has fewer)
last_n(q, n) == IF Len(q) <= n THEN q ELSE SubSeq(q, Len(q) - n + 1, Len(q))

----------------------------------------------------------------------------
(* C1 *)

\* C1: a value is appended to a channel history, a VE value is computed or
\* a cell of the VE table is updated only while connected is true, for the
\* poll handler and for the push callback alike.
C1_OnlyWhileConnected ==
    [][(Appends \/ ComputesVE \/ grid' # grid) => connected]_vars

(* C2 *)

\* C2: disconnect_obd can run in every state and always ends with connected
\* false, every channel history empty, no latest value and no supported
\* command.
C2_DisconnectClears ==
    [][disconnect_obd =>
          /\ connected' = FALSE
          /\ connection' = None
          /\ \A c \in Channels : history'[c] = <<>> /\ sensor_values'[c] = Absent
          /\ supported_commands' = {}]_vars

\* a disconnect has run after a session that took samples and filled the table
C2_Witness ==
    /\ ~connected
    /\ last_port # None
    /\ ve_trace # <<>>
    /\ \A c \in Channels : history[c] = <<>> /\ sensor_values[c] = Absent

(* C3 *)

\* a step that opens or closes the session, or clears the histories
SessionStep ==
    \/ connected' # connected
    \/ connection' # connection
    \/ last_port' # last_port
    \/ supported_commands' # supported_commands
    \/ \E c \in Channels : history[c] # <<>> /\ history'[c] = <<>>

\* C3: a disconnect, a connect (successful or failed) and a reconnect leave
\* the mean and the count of every cell of the VE table as they were.
C3_GridPersists == [][SessionStep => grid' = grid]_vars

\* a new session is open, with nothing read yet, and the table still holds
\* the samples of an earlier session
C3_Witness ==
    /\ connected
    /\ \A c \in Channels : sensor_values[c] = Absent
    /\ \E c \in Cells : count_at(c) >= 1 /\ mean_at(c) # Zero

(* C4 *)

\* C4: in every state the count of every cell is the number of VE values
\* assigned to it, and its mean is their arithmetic mean (0 for no value).
C4_MeanAndCountExact ==
    \A c \in Cells :
        LET vs == values_of(c)
        IN  /\ count_at(c) = Len(vs)
            /\ mean_at(c) = IF vs = <<>> THEN Zero ELSE arithmetic_mean(vs)

\* a cell holds the mean of two different values
C4_Witness ==
    \E c \in visited :
        /\ count_at(c) = 2
        /\ values_of(c)[1] # values_of(c)[2]
        /\ mean_at(c) # values_of(c)[1]

(* C5 *)

\* C5: a table update with value v on cell c makes the mean of c
\* (old_mean * old_count + v) / (old_count + 1), adds exactly 1 to the count
\* of c and leaves every other cell alone; no other step changes any cell.
C5_UpdateFrame ==
    [][\/ grid' = grid
       \/ /\ ve_trace' # ve_trace
          /\ \E c \in Cells :
                /\ count_at(c)' = count_at(c) + 1
                /\ RMul(mean_at(c)', Rat(count_at(c) + 1))
                       = RAdd(RMul(mean_at(c), Rat(count_at(c))), ve_label')
                /\ \A d \in Cells \ {c} :
                       mean_at(d)' = mean_at(d) /\ count_at(d)' = count_at(d)]_vars

\* two different cells have been updated
C5_Witness ==
    \E c, d \in visited : c # d /\ count_at(c) >= 1 /\ count_at(d) >= 1

(* C6 *)

\* the online update applied to the values vs in the order p
RECURSIVE online(_, _, _)
online(vs, p, k) ==
    IF k = 0
    THEN <<Zero, 0>>
    ELSE LET before == online(vs, p, k - 1)
         IN  <<new_avg(before[1], before[2], vs[p[k]]), new_count(before[2])>>

orders(n) == {p \in [1..n -> 1..n] : \A i, j \in 1..n : p[i] = p[j] => i = j}

\* C6: for the values submitted to a cell, the online updates give, in
\* every submission order, the arithmetic mean of the values and their number.
C6_OrderIndependent ==
    \A c \in visited :
        LET vs == values_of(c)
            n == Len(vs)
        IN  \A p \in orders(n) :
                /\ online(vs, p, n) = <<mean_at(c), count_at(c)>>
                /\ online(vs, p, n) = <<arithmetic_mean(vs), n>>

\* a cell was given three different values, the largest of them first and
\* the smallest second
C6_Witness ==
    \E c \in visited :
        LET vs == values_of(c)
        IN  /\ Len(vs) >= 3
            /\ RLt(vs[2], vs[3])
            /\ RLt(vs[3], vs[1])

(* C7 *)

\* the current rpm, maf or map reading is 0 (a sensor never read reads 0)
ZeroInput(sv) ==
    \/ reading(sv, "RPM") = Zero
    \/ reading(sv, "MAF") = Zero
    \/ reading(sv, "INTAKE_PRESSURE") = Zero

C8_NoVEWithoutIAT ==
    [][(ConnectedTick /\ sensor_values'["INTAKE_TEMP"] = Absent) =>
          (grid' = grid /\ ve_label' = ve_label /\ ve_trace' = ve_trace)]_vars

(* C9 *)

\* C9: with rpm, maf, map > 0, the intake temperature present and a positive
\* cylinder count, the computed VE is (maf / (rpm*cyl/120)) * (iat + 273.15) / map,
\* that is ve * rpm * cyl * map = maf * 120 * (iat + 273.15).
C9_VEFormula ==
    [][(ComputesVE /\ num_cyl > 0 /\ sensor_values'["INTAKE_TEMP"] # Absent) =>
          LET rpm == sensor_values'["RPM"]
              maf == sensor_values'["MAF"]
              map_ == sensor_values'["INTAKE_PRESSURE"]
              iat == sensor_values'["INTAKE_TEMP"]
          IN  /\ RGt0(rpm) /\ RGt0(maf) /\ RGt0(map_)
              /\ RMul(ve_label', RMul(RMul(rpm, Rat(num_cyl)), map_))
                     = RMul(RMul(maf, Rat(120)), RAdd(iat, <<27315, 100>>))]_vars

\* rpm=2000, maf=20, map=50, iat=25 with 4 cylinders gave 1.7889
C9_Witness ==
    /\ num_cyl = 4
    /\ sensor_values = Resp(Rat(2000), Rat(20), Rat(50), Rat(25))
    /\ ve_label = <<17889, 10000>>

(* C10 *)

distance(bins, value, i) == RAbs(RSub(Rat(bins[i]), value))

\* idx is the lowest of the indices whose edge is closest to value
nearest_low(bins, value, idx) ==
    /\ idx \in DOMAIN bins
    /\ \A j \in DOMAIN bins :
           /\ ~RLt(distance(bins, value, j), distance(bins, value, idx))
           /\ distance(bins, value, j) = distance(bins, value, idx) => idx <= j
    /\ RLt(value, Rat(bins[0])) => idx = 0
    /\ RLt(Rat(bins[len(bins) - 1]), value) => idx = len(bins) - 1

\* C10: the cell a reading is counted in has, on the MAP axis and on the RPM
\* axis, the index of the closest edge, the lower index when two edges are
\* equally close, and the first or last index for a value outside the axis;
\* and the axis 10, 20, 30 gives index 0 for the value 15.
C10_NearestBin ==
    [][ve_counts' # ve_counts =>
          /\ \A c \in Cells :
                 count_at(c)' # count_at(c) =>
                     /\ nearest_low(MAP_BINS, sensor_values'["INTAKE_PRESSURE"], c[1])
                     /\ nearest_low(RPM_BINS, sensor_values'["RPM"], c[2])
          /\ nearest_index([i \in 0..2 |-> 10 + 10 * i], Rat(15)) = 0]_vars

\* rpm = 600 lies midway between 400 and 800, map = 22.5 midway between 20
\* and 25, and the reading was counted in cell (0, 0)
C10_Witness ==
    /\ sensor_values["RPM"] = Rat(600)
    /\ sensor_values["INTAKE_PRESSURE"] = <<45, 2>>
    /\ count_at(<<0, 0>>) >= 1

(* C11 *)

\* C11: in every state the history of every channel holds at most 100 values.
C11_HistoryBounded == \A c \in Channels : Len(history[c]) <= HISTORY_LIMIT

\* a history is full, and more values than it holds were recorded on its
\* channel since it was last cleared
C11_Witness ==
    \E c \in Channels :
        Len(history[c]) = HISTORY_LIMIT /\ Len(recorded[c]) > HISTORY_LIMIT

(* C12 *)

\* C12: the history of a channel is the last min(n, 100) of the n values
\* recorded on it since the last clear, in the order they were recorded.
C12_EvictionFIFO ==
    \A c \in Channels : history[c] = last_n(recorded[c], HISTORY_LIMIT)

\* 102 values were recorded on a channel: its history holds 100 of them,
\* begins with the third and ends with the last
C12_Witness ==
    \E c \in Channels :
        /\ Len(recorded[c]) = HISTORY_LIMIT + 2
        /\ Len(history[c]) = HISTORY_LIMIT
        /\ history[c][1] = recorded[c][3]
        /\ history[c][HISTORY_LIMIT] = recorded[c][HISTORY_LIMIT + 2]
        /\ history[c][1] # recorded[c][1]

(* C13 *)

\* the variables of the program (the history variables left out)
program == <<connected, connection, last_port, supported_commands,
             sensor_values, history, num_cyl, ve_data_array, ve_counts,
             ve_label, status>>

\* C13: a tick of the reconnect timer while disconnected with a remembered
\* port makes exactly one connect attempt, to that port; a tick while
\* connected makes none and changes nothing.
C13_ReconnectTick ==
    [][\A result \in ConnectResults :
          reconnect_obd(result) =>
              /\ (~connected /\ last_port # None) =>
                    /\ Len(opens') = 1
                    /\ last_port' = last_port
                    /\ connected' => connection' = last_port
                    /\ connected' = (opens'[1][2] = "ok")
              /\ connected => (opens' = <<>> /\ program' = program)]_vars

\* the reconnect timer has reopened the session of the remembered port, and
\* the table still holds the samples of the session before
C13_Witness ==
    /\ opens = <<<<"reconnect_obd", "ok", last_port>>>>
    /\ connected
    /\ connection = last_port
    /\ ve_trace # <<>>

(* C14 *)

\* C14: a connect makes one open; when the open succeeds the program is
\* connected and holds the session; when it fails the program is
\* disconnected, holds no session, shows the error in the status bar and
\* keeps the remembered port.
C14_ConnectOutcome ==
    [][opens' # <<>> =>
          /\ Len(opens') = 1
          /\ IF opens'[1][2] = "ok"
             THEN /\ connected'
                  /\ connection' # None
                  /\ connection' = last_port'
                  /\ status' = "Connected"
             ELSE /\ ~connected'
                  /\ connection' = None
                  /\ supported_commands' = {}
                  /\ status' = "Connection Error"
                  /\ last_port' = last_port]_vars

\* a connect has failed after an earlier session, whose port is remembered
C14_Witness ==
    /\ Len(opens) = 1
    /\ opens[1][1] = "on_connect_clicked"
    /\ opens[1][2] = "failed"
    /\ ~connected
    /\ connection = None
    /\ last_port # None
    /\ status = "Connection Error"

(* C15 *)

\* what the program shows of the state of its connection
connection_state == <<connected, connection, supported_commands, status>>

\* a poll tick while connected on which the query of a supported command
\* fails (it raises, or answers null)
FailedReadTick ==
    /\ connected
    /\ \E resp \in PollResponses :
          /\ \E c \in supported_commands : resp[c] = Absent
          /\ update_dashboard(resp)

\* C15: a failed read while connected moves the connection to a state the
\* caller can tell from Connected.
C15_ReadFailureDegrades ==
    [][FailedReadTick => connection_state' # connection_state]_vars

(* C16 *)

\* a step of a handler the operator triggers: a button of the window
OperatorStep ==
    \/ \E port \in Ports, result \in ConnectResults : connect_obd(port, result)
    \/ disconnect_obd
    \/ \E text \in CylTexts : update_num_cyl(text)

\* C16: the operator can reset the table: in every state some handler the
\* operator triggers leaves every mean and every count at zero.
C16_ResetZeroesGrid ==
    ENABLED (OperatorStep /\ ve_data_array' = zeros(Zero) /\ ve_counts' = zeros(0))

(* C17 *)

\* C17: the cylinder count is a positive integer in every state: a count
\* that is zero, negative or no integer is rejected when it is typed.
C17_CylinderCountPositive == num_cyl > 0

(* C19 *)

\* C19: no division of the VE calculation or of the running mean divides by
\* zero, whatever the readings and the cylinder count: the except branch of
\* update_dashboard is never entered and no quotient shown is an error.
C19_NoDivisionByZero ==
    /\ status # DashboardError
    /\ ve_label # Absent => ~raised(ve_label)

\* a VE value was computed with a cylinder count of zero or less: the guard
\* of g_cyl made it 0
C19_Witness ==
    /\ num_cyl <= 0
    /\ ve_label = Zero
    /\ ve_trace # <<>>
    /\ ve_trace[Len(ve_trace)][2] = Zero
    /\ status = "Connected"

(* C20 *)

\* C20: a cell that was never updated has mean 0 and count 0 (every cell in
\* the initial state), and a cell that was updated has a count of at least 1.
C20_CountTellsVisited ==
    \A c \in Cells :
        IF c \in visited
        THEN count_at(c) >= 1
        ELSE mean_at(c) = Zero /\ count_at(c) = 0

\* a cell was updated and its mean is 0: only its count tells it from the
\* cells never updated
C20_Witness ==
    \E c \in visited : mean_at(c) = Zero /\ count_at(c) >= 1

(* C21 *)

\* C21: the log table never holds more than 500 rows, whatever lines are
\* written and whenever it is cleared.
C21_LogTableBounded == Len(log_timing_table) <= LOG_LIMIT

(* C22 *)

\* a step whose handler opened the session of port successfully
Succeeds(port) ==
    opens' # <<>> /\ opens'[1][2] = "ok" /\ opens'[1][3] = port

\* C22: the remembered port is None until a connect succeeds, becomes the
\* port of every connect that succeeds and is changed by nothing else (no
\* disconnect and no failed connect clears or replaces it); and every open
\* the reconnect timer makes, after an explicit disconnect too, is an open of
\* the remembered port, so never of a port whose connects have all failed.
C22_RememberedPort ==
    /\ last_port = None
    /\ [][/\ \A port \in TwoPorts : Succeeds(port) => last_port' = port
          /\ (\A port \in TwoPorts : ~Succeeds(port)) => last_port' = last_port
          /\ \A result \in PortResults :
                (reconnect_obd(result) /\ ~connected /\ last_port # None) =>
                    Len(opens') = 1 /\ opens'[1][3] = last_port
          /\ (opens' # <<>> /\ opens'[1][1] = "reconnect_obd") =>
                (last_port # None /\ opens'[1][3] = last_port)]_vars

\* a session of COM3 was opened and closed, and a connect to COM4 has just
\* failed: COM3 is still the remembered port
C22_Witness ==
    /\ ~connected
    /\ last_port = "COM3"
    /\ opens = <<<<"on_connect_clicked", "failed", "COM4">>>>

(* C23 *)

\* a tick of the poll timer while connected
PollTick == connected /\ \E resp \in PollResponses : update_dashboard(resp)

\* the stored rpm, maf and map readings are all positive
PositiveInputs(sv) ==
    /\ RGt0(reading(sv, "RPM"))
    /\ RGt0(reading(sv, "MAF"))
    /\ RGt0(reading(sv, "INTAKE_PRESSURE"))

\* C23: a poll tick while connected that ends with positive stored rpm, maf
\* and map readings adds exactly 1 to the count of exactly one cell, whether
\* a query of the tick was answered or not: a tick on which every query
\* fails counts the readings of the tick before once more.
C23_TickCountsOneCell ==
    [][(PollTick /\ PositiveInputs(sensor_values')) =>
          \E c \in Cells :
              /\ count_at(c)' = count_at(c) + 1
              /\ \A d \in Cells \ {c} : count_at(d)' = count_at(d)]_vars

\* in the one session there is, every sensor was read once and two ticks
\* have run: the second tick read nothing, and the cell of the first
\* reading was counted twice
C23_Witness ==
    /\ connected
    /\ samples = 2
    /\ \A c \in Channels : Len(recorded[c]) = 1
    /\ Len(ve_trace) = 2
    /\ ve_trace[1][1] = ve_trace[2][1]
    /\ count_at(ve_trace[1][1]) = 2

(* C24 *)

\* the sensors the guard of the VE calculation asks a positive reading of
GuardChannels == {"RPM", "MAF", "INTAKE_PRESSURE"}

\* the last element of the sequence q
last(q) == q[Len(q)]

\* C24: a step updates a cell of the table only while connected and only
\* when, since the disconnect or the teardown of the connect that began the
\* session, a reading of RPM, of MAF and of MAP has been recorded and the
\* latest of each, the one the calculation uses, is positive: no reading of
\* an earlier session reaches the table.
C24_NoLeakAcrossSessions ==
    [][grid' # grid =>
          /\ connected
          /\ \A c \in GuardChannels :
                /\ recorded'[c] # <<>>
                /\ sensor_values'[c] = last(recorded'[c])
                /\ RGt0(last(recorded'[c]))]_vars

\* a session filled a cell at rpm 2000; in the session after it a tick has
\* read MAF and MAP but no RPM, and no cell was updated
C24_Witness ==
    /\ connected
    /\ samples = 2
    /\ Len(ve_trace) = 1
    /\ recorded["RPM"] = <<>>
    /\ sensor_values["RPM"] = Absent
    /\ Len(recorded["MAF"]) = 1
    /\ Len(recorded["INTAKE_PRESSURE"]) = 1
    /\ RGt0(sensor_values["MAF"])
    /\ RGt0(sensor_values["INTAKE_PRESSURE"])

(* C25 *)

\* C25: at most one session is open at any moment; while no call of
\* connect_obd is in progress (none is stopped in its error dialog),
\* connected is true exactly when self.connection holds a session, and that
\* session is the one open; and a disconnect, and a failed connect run to
\* its end, leave no session held and connected false.
C25_ConnectedIffSession ==
    /\ [](/\ open_sessions <= 1
          /\ warning_open = 0 =>
                /\ connected <=> connection # None
                /\ open_sessions = IF connection # None THEN 1 ELSE 0)
    /\ [][(warning_closed \/ disconnect_obd) =>
              (~connected' /\ connection' = None /\ open_sessions' = 0)]_vars

\* a connect failed; while its dialog was open the reconnect timer opened a
\* session; the dialog was then closed and the end of the failed connect
\* closed that session: the status bar still says connected
C25_Witness ==
    /\ warning_open = 0
    /\ ~connected
    /\ connection = None
    /\ open_sessions = 0
    /\ status = "Connected"

(* C26 *)

\* the value the gauge shows lies in its range
in_range(gauge) ==
    gauge.min_value <= gauge.current_value /\ gauge.current_value <= gauge.max_value

\* C26: a gauge of either class constructed with min_value <= max_value
\* shows a value in its range in every state; given a value outside its
\* range, the gauge of main.py keeps the value it shows and the gauge of
\* enhanced_gauge.py shows the nearer end of its range; given a value in its
\* range, either shows that value.
C26_GaugeInRange ==
    /\ [](\A gauge \in {rpm_gauge, enhanced_gauge} :
            gauge.min_value <= gauge.max_value => in_range(gauge))
    /\ [][\A value \in GaugeValues :
            /\ rpm_gauge_set_value(value) =>
                  rpm_gauge'.current_value =
                      IF value < rpm_gauge.min_value \/ value > rpm_gauge.max_value
                      THEN rpm_gauge.current_value
                      ELSE value
            /\ (/\ enhanced_gauge_set_value(value)
                /\ enhanced_gauge.min_value <= enhanced_gauge.max_value) =>
                  enhanced_gauge'.current_value =
                      IF value < enhanced_gauge.min_value
                      THEN enhanced_gauge.min_value
                      ELSE IF value > enhanced_gauge.max_value
                           THEN enhanced_gauge.max_value
                           ELSE value]_vars

\* two gauges of the range 0..2: the gauge of main.py shows 1, a value it
\* was given, and the enhanced gauge shows 2, the end of its range
C26_Witness ==
    /\ rpm_gauge = [min_value |-> 0, max_value |-> 2, current_value |-> 1]
    /\ enhanced_gauge = [min_value |-> 0, max_value |-> 2, current_value |-> 2]

(* C18 *)

\* a step of the thread of _run_device_test
WorkerStep ==
    test_thread \in {"open", "query", "post"} /\ test_thread' # test_thread

\* C18: no step of the thread of the device test, wherever it falls between
\* the handlers, writes the histories, the latest values, the VE table, the
\* connected flag, the session handle or the remembered port, nor any other
\* variable of the window: it ends by queueing finish.
C18_WorkerWritesNothing ==
    [][WorkerStep =>
          /\ UNCHANGED <<history, sensor_values, ve_data_array, ve_counts,
                         connected, connection, last_port>>
          /\ UNCHANGED <<supported_commands, num_cyl, ve_label, status,
                         test_button>>
          /\ test_thread' = "queued" => test_thread = "post"]_vars

\* the thread has made its queries and is about to post finish, while the
\* event loop has connected since the test was started and a poll has
\* filled a cell of the table
C18_Witness ==
    /\ test_thread = "post"
    /\ Len(test_results) = 1 + TEST_QUERIES
    /\ ~test_button
    /\ status = "Connected"
    /\ connected
    /\ ve_trace # <<>>

====
